---------------------------- MODULE Spec2Model ----------------------------
(***************************************************************************)
(* Model of the VCF Analyzer page of src/asthe.py.py: the record extractor *)
(* parse_vcf, the three metric calculators and the upload/try/finally      *)
(* block that stages the uploaded file and drives them.                    *)
(*                                                                         *)
(* Text is modelled as a sequence of one-character strings, so that        *)
(* ','.join, str.split and the f-string label are computed, not assumed.   *)
(* Floating point quotients are modelled as exact fractions [n, d].        *)
(* A value that pandas/Python may leave missing (None, NaN) is an option   *)
(* record [def, v].                                                        *)
(***************************************************************************)
EXTENDS Integers, Sequences, FiniteSets, TLC

\* ------------------------------------------------------------------ bounds
MaxVariants == 3    \* variants in one uploaded file
MaxRuns     == 2    \* script runs (uploads) in one session
MaxRows     == 4    \* rows of a table handed directly to a calculator

\* --------------------------------------------------------- program constants
Q30Threshold == 30  \* df['QUAL'] >= 30
PercentScale == 100 \* (Count / total) * 100 and median * 100

\* ------------------------------------------------------------- value shapes
Frac(n, d) == [n |-> n, d |-> d]
FracEq(a, b)  == a.n * b.d = b.n * a.d
FracLeq(a, b) == a.n * b.d <= b.n * a.d
Zero == Frac(0, 1)

NoneInt   == [def |-> FALSE, v |-> 0]
SomeInt(x) == [def |-> TRUE, v |-> x]
NaN       == [def |-> FALSE, v |-> Zero]
SomeFrac(f) == [def |-> TRUE, v |-> f]
NoneTuple == [def |-> FALSE, v |-> <<>>]
SomeTuple(t) == [def |-> TRUE, v |-> t]

Comma == ","
Arrow == "->"   \* the one-character arrow of the mutation label

\* ------------------------------------------------------------ text helpers
RECURSIVE Join(_)
\* ','.join(parts)
Join(parts) ==
    IF Len(parts) = 0 THEN <<>>
    ELSE IF Len(parts) = 1 THEN parts[1]
    ELSE parts[1] \o <<Comma>> \o Join(Tail(parts))

RECURSIVE SplitFirst(_)
\* text.split(',')[0]: the characters before the first comma
SplitFirst(text) ==
    IF Len(text) = 0 \/ Head(text) = Comma THEN <<>>
    ELSE <<Head(text)>> \o SplitFirst(Tail(text))

\* f"{REF}->{ALT[0]}"
MutationLabel(ref, alt0) == ref \o <<Arrow>> \o alt0

\* ------------------------------------------------------------- the inputs
\* A variant as the VCF reader hands it to the loop body.  FORMAT is the set
\* of per-sample field names, AD the first sample's allele-depth counts,
\* INFO_AF the value of INFO['AF'] (absent, or a tuple of fractions), ALT
\* the list of alternate alleles (empty for a site written with ALT '.'),
\* readable = FALSE a record on which the reader, or a lookup the loop body
\* makes on the reader's objects, raises.
Variant(chrom, pos, ref, alt, type, fmt, ad, af, qual, readable) ==
    [CHROM |-> chrom, POS |-> pos, REF |-> ref, ALT |-> alt, var_type |-> type,
     FORMAT |-> fmt, AD |-> ad, INFO_AF |-> af, QUAL |-> qual,
     readable |-> readable]

Half    == Frac(1, 2)
Quarter == Frac(1, 4)

Variants ==
    { \* allele depths 3/1, no AF
      Variant("1", 100, <<"A">>, << <<"G">> >>, "snp", {"GT", "AD"}, <<3, 1>>,
              NoneTuple, SomeInt(50), TRUE),
      \* allele depths 0/0, one AF value, quality exactly 30
      Variant("2", 300, <<"A">>, << <<"C">> >>, "snp", {"GT", "AD"}, <<0, 0>>,
              SomeTuple(<<Quarter>>), SomeInt(30), TRUE),
      \* two alternate alleles, no allele depths, two AF values, no quality
      Variant("2", 400, <<"G">>, << <<"T">>, <<"C">> >>, "snp", {"GT"}, <<0, 0>>,
              SomeTuple(<<Quarter, Half>>), NoneInt, TRUE),
      \* an insertion without samples and without AF
      Variant("1", 500, <<"T">>, << <<"T", "C">> >>, "indel", {}, <<0, 0>>,
              NoneTuple, SomeInt(29), TRUE),
      \* a site written with ALT '.': the list of alternate alleles is empty
      Variant("1", 700, <<"A">>, <<>>, "unknown", {}, <<0, 0>>,
              NoneTuple, SomeInt(40), TRUE),
      \* a record on which the reader raises
      Variant("1", 800, <<"G">>, << <<"A">> >>, "snp", {"GT"}, <<0, 0>>,
              NoneTuple, NoneInt, FALSE) }

RECURSIVE SeqsUpTo(_, _)
SeqsUpTo(S, n) ==
    IF n = 0 THEN { <<>> }
    ELSE LET shorter == SeqsUpTo(S, n - 1)
         IN  shorter \cup { Append(s, x) : s \in { t \in shorter : Len(t) = n - 1 }, x \in S }

\* An uploaded file: it opens as a VCF or not, and holds its variants in order.
UploadedFiles ==
    { [opens |-> TRUE, variants |-> vs] : vs \in SeqsUpTo(Variants, MaxVariants) }
    \cup { [opens |-> FALSE, variants |-> <<>>] }

\* -------------------------------------------------------------- parse_vcf
HasAD(variant) == "AD" \in variant.FORMAT

ref_count(variant) == variant.AD[1]
alt_count(variant) == IF HasAD(variant) THEN variant.AD[2] ELSE 0
total_depth(variant) ==
    IF HasAD(variant) THEN ref_count(variant) + alt_count(variant) ELSE 0

\* faulty variant: the reference reads over the depth
vaf_of_reference(variant) ==
    IF HasAD(variant)
    THEN IF total_depth(variant) > 0
         THEN Frac(ref_count(variant), total_depth(variant))
         ELSE Zero
    ELSE IF variant.INFO_AF.def THEN variant.INFO_AF.v[1] ELSE Zero

\* faulty variant: no fallback to the reported AF
vaf_without_fallback(variant) ==
    IF HasAD(variant) /\ total_depth(variant) > 0
    THEN Frac(alt_count(variant), total_depth(variant))
    ELSE Zero

\* lines 73-79
vaf(variant) ==
    IF HasAD(variant)
    THEN IF total_depth(variant) > 0
         THEN Frac(alt_count(variant), total_depth(variant))
         ELSE Zero
    ELSE IF variant.INFO_AF.def THEN variant.INFO_AF.v[1] ELSE Zero

\* The iteration raises on this variant: the reader or one of its lookups
\* fails on the record, or variant.ALT[0] indexes an empty list.
BodyRaises(variant) == ~variant.readable \/ Len(variant.ALT) = 0

ErrorText(variant) ==
    IF ~variant.readable THEN "VCF parsing error: malformed record"
    ELSE "VCF parsing error: list index out of range"

\* lines 81-92: the dict appended for one variant
RecordOf(variant) ==
    [CHROM |-> variant.CHROM,
     POS |-> variant.POS,
     REF |-> variant.REF,
     ALT |-> Join(variant.ALT),
     TYPE |-> variant.var_type,
     AF |-> variant.INFO_AF,
     VAF |-> SomeFrac(vaf(variant)),
     DP |-> SomeInt(total_depth(variant)),
     Mutation |-> MutationLabel(variant.REF, variant.ALT[1]),
     QUAL |-> variant.QUAL]

EmptyDataFrame == <<>>
empty(df) == Len(df) = 0


\* ------------------------------------------ calculate_mutation_frequencies
\* Counter(df['Mutation']): the labels seen and how often each occurs
Labels(df) == { df[i].Mutation : i \in DOMAIN df }
CountOf(df, label) == Cardinality({ i \in DOMAIN df : df[i].Mutation = label })

RECURSIVE SumCounts(_, _)
\* sum(mutation_counts.values())
SumCounts(df, labels) ==
    IF labels = {} THEN 0
    ELSE LET l == CHOOSE x \in labels : TRUE
         IN  CountOf(df, l) + SumCounts(df, labels \ {l})

total_mutations(df) == SumCounts(df, Labels(df))

\* faulty variant: the share left as a fraction of 1
FrequencyShare(count, total) == Frac(count, total)

\* freq_df['Frequency (%)'] = (freq_df['Count'] / total_mutations) * 100
FrequencyPercent(count, total) == Frac(count * PercentScale, total)

FreqEntry(df, label) ==
    [Mutation |-> label,
     Count |-> CountOf(df, label),
     Frequency |-> FrequencyPercent(CountOf(df, label), total_mutations(df))]

FreqEntries(df) == { FreqEntry(df, l) : l \in Labels(df) }

\* sort_values('Count', ascending=False): rows by non-increasing Count
SortedDescending(t) == \A i \in 1..(Len(t) - 1) : t[i].Count >= t[i + 1].Count

\* every order of the entries
Orderings(E) ==
    { t \in [1..Cardinality(E) -> E] : \A i, j \in 1..Cardinality(E) : t[i] = t[j] => i = j }

\* The tables calculate_mutation_frequencies(df) can return: the default
\* sort is not a stable one, so entries of equal Count come in any order.
calculate_mutation_frequencies(df) ==
    IF empty(df) THEN { EmptyDataFrame }
    ELSE { t \in Orderings(FreqEntries(df)) : SortedDescending(t) }

\* ----------------------------------------------------- ngs_quality_metrics
RECURSIVE SumDP(_)
SumDP(rows) == IF Len(rows) = 0 THEN 0 ELSE Head(rows).DP.v + SumDP(Tail(rows))

DefinedDP(row)  == row.DP.def
DefinedVAF(row) == row.VAF.def

\* np.mean(df['DP'].dropna()): NaN when every depth is missing
MeanDepth(df) ==
    LET kept == SelectSeq(df, DefinedDP)
    IN  IF Len(kept) = 0 THEN NaN ELSE SomeFrac(Frac(SumDP(kept), Len(kept)))

RECURSIVE InsertFrac(_, _)
InsertFrac(f, sorted) ==
    IF Len(sorted) = 0 THEN <<f>>
    ELSE IF FracLeq(f, Head(sorted)) THEN <<f>> \o sorted
    ELSE <<Head(sorted)>> \o InsertFrac(f, Tail(sorted))

RECURSIVE SortedVAF(_)
SortedVAF(rows) ==
    IF Len(rows) = 0 THEN <<>> ELSE InsertFrac(Head(rows).VAF.v, SortedVAF(Tail(rows)))

\* np.median(df['VAF'].dropna()) * 100
MedianVAF(df) ==
    LET s == SortedVAF(SelectSeq(df, DefinedVAF))
        n == Len(s)
        lo == s[n \div 2]
        hi == s[n \div 2 + 1]
    IN  IF n = 0 THEN NaN
        ELSE IF n % 2 = 1 THEN SomeFrac(Frac(hi.n * PercentScale, hi.d))
        ELSE SomeFrac(Frac((lo.n * hi.d + hi.n * lo.d) * PercentScale, 2 * lo.d * hi.d))

\* faulty variant: a score of exactly 30 not counted
Q30VariantsAbove(df) ==
    Cardinality({ i \in DOMAIN df : df[i].QUAL.def /\ df[i].QUAL.v > Q30Threshold })

\* len(df[df['QUAL'] >= 30]): a missing score compares False
Q30Variants(df) ==
    Cardinality({ i \in DOMAIN df : df[i].QUAL.def /\ df[i].QUAL.v >= Q30Threshold })

MetricKeys == {"Mean Depth", "Median VAF", "Q30 Variants"}
EmptyMetrics == [keys |-> {}, MeanDepth |-> NaN, MedianVAF |-> NaN, Q30 |-> 0]

ngs_quality_metrics(df) ==
    IF ~empty(df)
    THEN [keys |-> MetricKeys, MeanDepth |-> MeanDepth(df),
          MedianVAF |-> MedianVAF(df), Q30 |-> Q30Variants(df)]
    ELSE EmptyMetrics

\* ------------------------------------------------------- mutation_spectrum
NA == NoneInt
Base(c) == <<c>>
transitions ==
    { <<Base("A"), Base("G")>>, <<Base("G"), Base("A")>>,
      <<Base("C"), Base("T")>>, <<Base("T"), Base("C")>> }
transversions ==
    { <<Base("A"), Base("C")>>, <<Base("A"), Base("T")>>,
      <<Base("C"), Base("A")>>, <<Base("C"), Base("G")>>,
      <<Base("G"), Base("C")>>, <<Base("G"), Base("T")>>,
      <<Base("T"), Base("A")>>, <<Base("T"), Base("G")>> }

\* ref, alt = row['REF'], row['ALT'].split(',')[0]
PairOf(row) == <<row.REF, SplitFirst(row.ALT)>>

\* faulty variant: the loop visits the rows of every type
IsAnyType(row) == TRUE

\* the rows the loop of line 129 visits
IsSnp(row) == row.TYPE = "snp"
SnpRows(df) == { i \in DOMAIN df : IsSnp(df[i]) }

ti(df) == Cardinality({ i \in SnpRows(df) : PairOf(df[i]) \in transitions })
tv(df) == Cardinality({ i \in SnpRows(df) :
                          /\ PairOf(df[i]) \notin transitions
                          /\ PairOf(df[i]) \in transversions })

\* round(a / b, 2), in hundredths.  A quotient exactly halfway between two
\* hundredths needs b to be a multiple of 8; it is then rounded to the even one.
Round2(a, b) ==
    LET q == (a * 100) \div b
        r == (a * 100) % b
    IN  IF 2 * r < b THEN q
        ELSE IF 2 * r > b THEN q + 1
        ELSE IF q % 2 = 0 THEN q ELSE q + 1

\* faulty variant: the sentinel only for 0/0, a ratio of 0 when only tv is 0
TiTvRatioZero(a, b) ==
    IF b > 0 THEN SomeInt(Round2(a, b)) ELSE IF a = 0 THEN NA ELSE SomeInt(0)

\* 'Ti/Tv Ratio': round(ti/tv, 2) if tv > 0 else 'NA'
TiTvRatio(a, b) == IF b > 0 THEN SomeInt(Round2(a, b)) ELSE NA

mutation_spectrum(df) ==
    IF empty(df) \/ SnpRows(df) = {}
    THEN [Transitions |-> 0, Transversions |-> 0, Ratio |-> NA]
    ELSE [Transitions |-> ti(df), Transversions |-> tv(df),
          Ratio |-> TiTvRatio(ti(df), tv(df))]

\* ------------------------------------------------------ the analyzer page
VARIABLES
    pc,         \* where the script run stands
    runs,       \* script runs started so far
    files,      \* temporary files that exist on disk
    tmp_path,   \* tmp.name of this run, NoPath until line 234 assigns it
    uploaded,   \* uploaded_vcf: the content written to the temporary file
    idx,        \* parse_vcf: position of the loop in the file
    records,    \* parse_vcf: the list `records`
    df,         \* the table
    errors,     \* st.error messages shown, in order
    calls,      \* calculators called and sections displayed in this run
    freq_df,    \* result of calculate_mutation_frequencies
    metrics,    \* result of ngs_quality_metrics
    spectrum,   \* result of mutation_spectrum
    outcome     \* how the try block was left

vars == <<pc, runs, files, tmp_path, uploaded, idx, records, df, errors, calls,
          freq_df, metrics, spectrum, outcome>>

NoPath == 0
NoFile == [opens |-> FALSE, variants |-> <<>>]
NoSpectrum == [Transitions |-> 0, Transversions |-> 0, Ratio |-> NA]

NoVariantsMessage == "No variants detected!"
OpenErrorText == "VCF parsing error: not a VCF file"

Calculators == {"calculate_mutation_frequencies", "ngs_quality_metrics", "mutation_spectrum"}
Sections == {"Basic Statistics", "Variant Type Distribution", "Variants per Chromosome",
             "Mutation Frequencies", "NGS Quality Metrics",
             "Allele Frequency Distribution", "Mutation Spectrum", "Raw Data"}

\* a fresh run: nothing staged, nothing computed
RunReset ==
    /\ tmp_path = NoPath
    /\ uploaded = NoFile
    /\ idx = 0
    /\ records = <<>>
    /\ df = EmptyDataFrame
    /\ errors = <<>>
    /\ calls = {}
    /\ freq_df = EmptyDataFrame
    /\ metrics = EmptyMetrics
    /\ spectrum = NoSpectrum
    /\ outcome = "none"

Init ==
    /\ pc = "idle"
    /\ runs = 0
    /\ files = {}
    /\ RunReset

\* lines 231-234: the upload is written to a new temporary file that is kept
\* on close (delete=False), and its name becomes tmp_path
Stage(f) ==
    /\ pc = "idle"
    /\ runs < MaxRuns
    /\ runs' = runs + 1
    /\ files' = files \cup {runs + 1}
    /\ tmp_path' = runs + 1
    /\ uploaded' = f
    /\ pc' = "try"
    /\ UNCHANGED <<idx, records, df, errors, calls, freq_df, metrics, spectrum, outcome>>

\* line 233 raises (the write fails): the file was created, the with block
\* closes it without deleting it, and the script run ends before line 234
StageFails ==
    /\ pc = "idle"
    /\ runs < MaxRuns
    /\ runs' = runs + 1
    /\ files' = files \cup {runs + 1}
    /\ outcome' = "exception"
    /\ pc' = "done"
    /\ UNCHANGED <<tmp_path, uploaded, idx, records, df, errors, calls, freq_df,
                   metrics, spectrum>>

\* line 67: VCF(vcf_path); a file that is no VCF raises, lines 94-96 catch it
parse_vcf_open ==
    /\ pc = "try"
    /\ IF uploaded.opens
       THEN /\ records' = <<>>
            /\ idx' = 1
            /\ pc' = "parse"
            /\ UNCHANGED <<df, errors>>
       ELSE /\ errors' = Append(errors, OpenErrorText)
            /\ df' = EmptyDataFrame
            /\ pc' = "check"
            /\ UNCHANGED <<records, idx>>
    /\ UNCHANGED <<runs, files, tmp_path, uploaded, calls, freq_df, metrics, spectrum, outcome>>

\* faulty variant: a variant the body fails on is reported and skipped
parse_vcf_variant_skipping ==
    /\ pc = "parse"
    /\ idx <= Len(uploaded.variants)
    /\ LET variant == uploaded.variants[idx]
       IN  IF BodyRaises(variant)
           THEN /\ errors' = Append(errors, ErrorText(variant))
                /\ idx' = idx + 1
                /\ UNCHANGED <<records, df, pc>>
           ELSE /\ records' = Append(records, RecordOf(variant))
                /\ idx' = idx + 1
                /\ UNCHANGED <<df, errors, pc>>
    /\ UNCHANGED <<runs, files, tmp_path, uploaded, calls, freq_df, metrics, spectrum, outcome>>

\* lines 69-92: one iteration of the loop; an exception anywhere in it is
\* caught by lines 94-96, which report it and return an empty DataFrame
parse_vcf_variant ==
    /\ pc = "parse"
    /\ idx <= Len(uploaded.variants)
    /\ LET variant == uploaded.variants[idx]
       IN  IF BodyRaises(variant)
           THEN /\ errors' = Append(errors, ErrorText(variant))
                /\ df' = EmptyDataFrame
                /\ pc' = "check"
                /\ UNCHANGED <<records, idx>>
           ELSE /\ records' = Append(records, RecordOf(variant))
                /\ idx' = idx + 1
                /\ UNCHANGED <<df, errors, pc>>
    /\ UNCHANGED <<runs, files, tmp_path, uploaded, calls, freq_df, metrics, spectrum, outcome>>

\* line 93: return pd.DataFrame(records)
parse_vcf_return ==
    /\ pc = "parse"
    /\ idx > Len(uploaded.variants)
    /\ df' = records
    /\ pc' = "check"
    /\ UNCHANGED <<runs, files, tmp_path, uploaded, idx, records, errors, calls,
                   freq_df, metrics, spectrum, outcome>>

\* faulty variant: the message is shown and the script goes on
CheckEmptyWithoutStop ==
    /\ pc = "check"
    /\ errors' = IF empty(df) THEN Append(errors, NoVariantsMessage) ELSE errors
    /\ pc' = "Basic Statistics"
    /\ UNCHANGED <<runs, files, tmp_path, uploaded, idx, records, df, calls,
                   freq_df, metrics, spectrum, outcome>>

\* lines 240-242: st.stop() raises out of the try block
CheckEmpty ==
    /\ pc = "check"
    /\ IF empty(df)
       THEN /\ errors' = Append(errors, NoVariantsMessage)
            /\ outcome' = "stopped"
            /\ pc' = "finally"
       ELSE /\ pc' = "Basic Statistics"
            /\ UNCHANGED <<errors, outcome>>
    /\ UNCHANGED <<runs, files, tmp_path, uploaded, idx, records, df, calls,
                   freq_df, metrics, spectrum>>

\* a section that only displays: lines 244-253, 255-308, 310-312, 338-347, 364-366
Display(section, next) ==
    /\ pc = section
    /\ calls' = calls \cup {section}
    /\ pc' = next
    /\ outcome' = IF next = "finally" THEN "completed" ELSE outcome
    /\ UNCHANGED <<runs, files, tmp_path, uploaded, idx, records, df, errors,
                   freq_df, metrics, spectrum>>

BasicStatistics == Display("Basic Statistics", "Variant Type Distribution")
VariantTypes    == Display("Variant Type Distribution", "Variants per Chromosome")
ChromosomeChart == Display("Variants per Chromosome", "Mutation Frequencies")
AlleleFrequency == Display("Allele Frequency Distribution", "Mutation Spectrum")
RawData         == Display("Raw Data", "finally")

\* lines 314-327
MutationFrequencies ==
    /\ pc = "Mutation Frequencies"
    /\ freq_df' \in calculate_mutation_frequencies(df)
    /\ calls' = calls \cup {"calculate_mutation_frequencies", "Mutation Frequencies"}
    /\ pc' = "NGS Quality Metrics"
    /\ UNCHANGED <<runs, files, tmp_path, uploaded, idx, records, df, errors,
                   metrics, spectrum, outcome>>

\* lines 329-336
QualityMetrics ==
    /\ pc = "NGS Quality Metrics"
    /\ metrics' = ngs_quality_metrics(df)
    /\ calls' = calls \cup {"ngs_quality_metrics", "NGS Quality Metrics"}
    /\ pc' = "Allele Frequency Distribution"
    /\ UNCHANGED <<runs, files, tmp_path, uploaded, idx, records, df, errors,
                   freq_df, spectrum, outcome>>

\* lines 349-362
MutationSpectrum ==
    /\ pc = "Mutation Spectrum"
    /\ spectrum' = mutation_spectrum(df)
    /\ calls' = calls \cup {"mutation_spectrum", "Mutation Spectrum"}
    /\ pc' = "Raw Data"
    /\ UNCHANGED <<runs, files, tmp_path, uploaded, idx, records, df, errors,
                   freq_df, metrics, outcome>>

\* a display call of a section raises: the exception leaves the try block
RenderRaises ==
    /\ pc \in Sections
    /\ outcome' = "exception"
    /\ pc' = "finally"
    /\ UNCHANGED <<runs, files, tmp_path, uploaded, idx, records, df, errors, calls,
                   freq_df, metrics, spectrum>>

\* faulty variant: the file is unlinked at the end of the try body, not in a finally
UnlinkAfterSuccess ==
    /\ pc = "finally"
    /\ files' = IF outcome = "completed" THEN files \ {tmp_path} ELSE files
    /\ pc' = "done"
    /\ UNCHANGED <<runs, tmp_path, uploaded, idx, records, df, errors, calls,
                   freq_df, metrics, spectrum, outcome>>

\* lines 368-369: os.unlink(tmp_path)
Finally ==
    /\ pc = "finally"
    /\ files' = files \ {tmp_path}
    /\ pc' = "done"
    /\ UNCHANGED <<runs, tmp_path, uploaded, idx, records, df, errors, calls,
                   freq_df, metrics, spectrum, outcome>>

\* the script is run again from the top: every name of the last run is gone
Rerun ==
    /\ pc = "done"
    /\ pc' = "idle"
    /\ tmp_path' = NoPath
    /\ uploaded' = NoFile
    /\ idx' = 0
    /\ records' = <<>>
    /\ df' = EmptyDataFrame
    /\ errors' = <<>>
    /\ calls' = {}
    /\ freq_df' = EmptyDataFrame
    /\ metrics' = EmptyMetrics
    /\ spectrum' = NoSpectrum
    /\ outcome' = "none"
    /\ UNCHANGED <<runs, files>>

Next ==
    \/ \E f \in UploadedFiles : Stage(f)
    \/ StageFails
    \/ parse_vcf_open
    \/ parse_vcf_variant
    \/ parse_vcf_return
    \/ CheckEmpty
    \/ BasicStatistics
    \/ VariantTypes
    \/ ChromosomeChart
    \/ MutationFrequencies
    \/ QualityMetrics
    \/ AlleleFrequency
    \/ MutationSpectrum
    \/ RawData
    \/ RenderRaises
    \/ Finally
    \/ Rerun

Spec == Init /\ [][Next]_vars

\* ------------------------------------- the calculators on arbitrary tables
\* A row of a record table, with the columns of lines 81-92.  Unlike the rows
\* parse_vcf builds, a row handed to a calculator may lack its depth or VAF.
Row(ref, alt, type, vf, dp, qual) ==
    [CHROM |-> "1", POS |-> 100, REF |-> ref, ALT |-> Join(alt), TYPE |-> type,
     AF |-> NoneTuple, VAF |-> vf, DP |-> dp,
     Mutation |-> MutationLabel(ref, alt[1]), QUAL |-> qual]

Rows ==
    { Row(<<"A">>, << <<"G">> >>, "snp", SomeFrac(Quarter), SomeInt(10), SomeInt(50)),
      Row(<<"C">>, << <<"T">> >>, "snp", SomeFrac(Half), SomeInt(20), NoneInt),
      Row(<<"A">>, << <<"C">> >>, "snp", NaN, NoneInt, SomeInt(30)),
      Row(<<"G">>, << <<"T">>, <<"C">> >>, "snp", SomeFrac(Frac(1, 1)), SomeInt(30), SomeInt(10)),
      \* first alternate allele a substitution, second an insertion
      Row(<<"A">>, << <<"G">>, <<"A", "T">> >>, "indel", SomeFrac(Zero), SomeInt(0), SomeInt(29)),
      \* an ambiguity code: a pair in neither table
      Row(<<"A">>, << <<"N">> >>, "snp", SomeFrac(Half), SomeInt(5), SomeInt(31)) }

Tables == SeqsUpTo(Rows, MaxRows)

CalcInit ==
    /\ pc = "calc"
    /\ runs = 0
    /\ files = {}
    /\ tmp_path = NoPath
    /\ uploaded = NoFile
    /\ idx = 0
    /\ records = <<>>
    /\ df \in Tables
    /\ errors = <<>>
    /\ calls = {}
    /\ freq_df = EmptyDataFrame
    /\ metrics = EmptyMetrics
    /\ spectrum = NoSpectrum
    /\ outcome = "none"

CalcFrequencies ==
    /\ pc = "calc"
    /\ "calculate_mutation_frequencies" \notin calls
    /\ freq_df' \in calculate_mutation_frequencies(df)
    /\ calls' = calls \cup {"calculate_mutation_frequencies"}
    /\ UNCHANGED <<pc, runs, files, tmp_path, uploaded, idx, records, df, errors,
                   metrics, spectrum, outcome>>

CalcQuality ==
    /\ pc = "calc"
    /\ "ngs_quality_metrics" \notin calls
    /\ metrics' = ngs_quality_metrics(df)
    /\ calls' = calls \cup {"ngs_quality_metrics"}
    /\ UNCHANGED <<pc, runs, files, tmp_path, uploaded, idx, records, df, errors,
                   freq_df, spectrum, outcome>>

CalcSpectrum ==
    /\ pc = "calc"
    /\ "mutation_spectrum" \notin calls
    /\ spectrum' = mutation_spectrum(df)
    /\ calls' = calls \cup {"mutation_spectrum"}
    /\ UNCHANGED <<pc, runs, files, tmp_path, uploaded, idx, records, df, errors,
                   freq_df, metrics, outcome>>

CalcNext ==
    \/ CalcFrequencies
    \/ CalcQuality
    \/ CalcSpectrum

CalcSpec == CalcInit /\ [][CalcNext]_vars

\* ================================================================ claims
\* helpers of the claims: the inputs read directly, not through the model's
\* operators

\* the run has staged its upload (line 234 was reached)
Staged == tmp_path /= NoPath
InTryBlock == pc \in {"try", "parse", "check", "finally"} \cup Sections

\* the file holds something parse_vcf fails on
FailsOn(variant) == ~variant.readable \/ variant.ALT = <<>>
InputFails(f) == ~f.opens \/ \E k \in DOMAIN f.variants : FailsOn(f.variants[k])
AfterParse == pc \in {"check", "finally", "done"} \cup Sections

\* C1: a run that staged its upload has its temporary file on disk from the
\* moment parse_vcf is called until the finally clause, and no such run ends
\* (after success, parse failure, the empty-table stop or an exception) with
\* the file still present.
C1_TempFileRemovedOnEveryPath ==
    /\ InTryBlock => (Staged /\ tmp_path \in files)
    /\ (pc = "done" /\ Staged) => tmp_path \notin files

C1_Witness ==
    /\ pc = "done"
    /\ Staged
    /\ outcome = "exception"
    /\ "calculate_mutation_frequencies" \in calls
    /\ tmp_path \notin files

\* C2: when parse_vcf fails on opening the file or on any variant, the table
\* it returns is empty and the failure message is reported; the rows read
\* before the failure are not returned and the loop never goes past the
\* failing variant.
C2_FailureYieldsEmptyTable ==
    /\ (pc = "parse") =>
          /\ Len(records) = idx - 1
          /\ \A k \in 1..(idx - 1) : ~FailsOn(uploaded.variants[k])
    /\ (AfterParse /\ Staged /\ InputFails(uploaded)) =>
          /\ df = <<>>
          /\ Len(errors) >= 1
          /\ errors[1] \in {OpenErrorText,
                            "VCF parsing error: malformed record",
                            "VCF parsing error: list index out of range"}

C2_Witness ==
    /\ pc = "check"
    /\ Len(records) = 2
    /\ Len(uploaded.variants) = 3
    /\ ~uploaded.variants[3].readable
    /\ df = <<>>
    /\ Len(errors) = 1

\* C3: when extraction returns an empty table the page shows "No variants
\* detected!" and stops: no calculator is called and no section is displayed
\* in that run, and the run ends by the stop, not by an exception.
C3_EmptyTableStopsBeforeAnalysis ==
    /\ (pc \in Sections) => Len(df) > 0
    /\ (pc \in {"finally", "done"} /\ Staged /\ Len(df) = 0) =>
          /\ calls = {}
          /\ errors[Len(errors)] = NoVariantsMessage
          /\ outcome = "stopped"

C3_Witness ==
    /\ pc = "done"
    /\ uploaded.opens
    /\ uploaded.variants = <<>>
    /\ errors = <<NoVariantsMessage>>
    /\ calls = {}

\* C4: every record parse_vcf builds has a VAF in [0,1]; when the variant has
\* allele depths with ref + alt = D > 0 the VAF is alt / D, and when D = 0 it
\* is 0.
C4_VafFromAlleleDepth ==
    \A i \in DOMAIN records :
        LET variant == uploaded.variants[i]
            value == records[i].VAF
            D == variant.AD[1] + variant.AD[2]
        IN  /\ value.def
            /\ value.v.d > 0
            /\ 0 <= value.v.n
            /\ value.v.n <= value.v.d
            /\ ("AD" \in variant.FORMAT /\ D > 0) =>
                   value.v.n * D = variant.AD[2] * value.v.d
            /\ ("AD" \in variant.FORMAT /\ D = 0) => value.v.n = 0

C4_Witness ==
    /\ pc = "check"
    /\ \E i \in DOMAIN df :
          /\ "AD" \in uploaded.variants[i].FORMAT
          /\ uploaded.variants[i].AD = <<3, 1>>
          /\ df[i].VAF.v.n * 4 = df[i].VAF.v.d

ValidInput(f) == f.opens /\ \A k \in DOMAIN f.variants : f.variants[k].readable

C6_OneRecordPerVariant ==
    (pc = "check" /\ ValidInput(uploaded) /\ Len(uploaded.variants) > 0) =>
        /\ Len(df) = Len(uploaded.variants)
        /\ \A i \in DOMAIN df :
              /\ df[i].CHROM = uploaded.variants[i].CHROM
              /\ df[i].POS = uploaded.variants[i].POS
              /\ df[i].REF = uploaded.variants[i].REF

\* ------------------------------------------------ claims on the calculators
Called(f) == f \in calls

RowsLabelled(label) == { i \in DOMAIN df : df[i].Mutation = label }

RECURSIVE PercentSum(_)
\* the sum of the Frequency column, as a fraction
PercentSum(t) ==
    IF Len(t) = 0 THEN Zero
    ELSE LET h == Head(t).Frequency
             rest == PercentSum(Tail(t))
         IN  Frac(h.n * rest.d + rest.n * h.d, h.d * rest.d)

\* C7: for a non-empty table calculate_mutation_frequencies returns one entry
\* per distinct mutation label, with Count the number of records carrying the
\* label and the percentage 100 * Count / (number of records); the
\* percentages sum to 100 and the entries come by non-increasing Count.  For
\* an empty table it returns an empty result.
C7_FrequenciesCountAndShare ==
    Called("calculate_mutation_frequencies") =>
        IF Len(df) = 0 THEN freq_df = <<>>
        ELSE /\ \A i, j \in DOMAIN freq_df :
                    freq_df[i].Mutation = freq_df[j].Mutation => i = j
             /\ { freq_df[i].Mutation : i \in DOMAIN freq_df }
                    = { df[i].Mutation : i \in DOMAIN df }
             /\ \A i \in DOMAIN freq_df :
                    /\ freq_df[i].Count = Cardinality(RowsLabelled(freq_df[i].Mutation))
                    /\ freq_df[i].Frequency.n * Len(df)
                           = 100 * freq_df[i].Count * freq_df[i].Frequency.d
             /\ PercentSum(freq_df).n = 100 * PercentSum(freq_df).d
             /\ \A i, j \in DOMAIN freq_df : i < j => freq_df[i].Count >= freq_df[j].Count

C7_Witness ==
    /\ Called("calculate_mutation_frequencies")
    /\ Len(df) = 4
    /\ Len(freq_df) = 3
    /\ freq_df[1].Count = 2
    /\ freq_df[1].Frequency.n = 50 * freq_df[1].Frequency.d

\* C8: whenever the Transversions count mutation_spectrum returns is 0 the
\* ratio is the sentinel NA, whatever the Transitions count (empty tables and
\* tables without snp rows included); when Transversions > 0 the ratio is
\* Transitions / Transversions rounded to two decimals.
C8_RatioSentinelOrRounded ==
    Called("mutation_spectrum") =>
        /\ spectrum.Transversions = 0 => spectrum.Ratio = NA
        /\ (Len(df) = 0 \/ \A i \in DOMAIN df : df[i].TYPE /= "snp") =>
               spectrum = [Transitions |-> 0, Transversions |-> 0, Ratio |-> NA]
        /\ spectrum.Transversions > 0 =>
               LET hundredths == spectrum.Ratio.v
                   off == hundredths * spectrum.Transversions - 100 * spectrum.Transitions
               IN  /\ spectrum.Ratio.def
                   /\ 2 * off <= spectrum.Transversions
                   /\ -2 * off <= spectrum.Transversions

C8_Witness ==
    /\ Called("mutation_spectrum")
    /\ spectrum.Transitions = 2
    /\ spectrum.Transversions = 0
    /\ spectrum.Ratio = NA

\* the text before the first comma of a joined ALT column
FirstAlt(text) ==
    CHOOSE p \in { SubSeq(text, 1, k) : k \in 0..Len(text) } :
        /\ \A i \in DOMAIN p : p[i] /= ","
        /\ (Len(p) = Len(text) \/ text[Len(p) + 1] = ",")

Purines == { <<"A">>, <<"G">> }
Pyrimidines == { <<"C">>, <<"T">> }
IsTransition(ref, alt) ==
    /\ ref /= alt
    /\ ({ref, alt} \subseteq Purines \/ {ref, alt} \subseteq Pyrimidines)
IsTransversion(ref, alt) ==
    \/ (ref \in Purines /\ alt \in Pyrimidines)
    \/ (ref \in Pyrimidines /\ alt \in Purines)

SnpIndices == { i \in DOMAIN df : df[i].TYPE = "snp" }
ExampleLabels == << <<"A", "->", "G">>, <<"A", "->", "G">>, <<"C", "->", "T">>,
                    <<"A", "->", "C">> >>

\* C9: mutation_spectrum counts only snp rows: Transitions is the number of
\* snp rows whose (REF, first ALT) is a purine-purine or pyrimidine-pyrimidine
\* substitution, Transversions the number whose pair is a purine-pyrimidine
\* substitution; other rows add to neither, so the two counts sum to at most
\* the number of snp rows; snp rows A->G, A->G, C->T, A->C give 3, 1 and
\* ratio 3.0.
C9_SpectrumCountsSnpPairs ==
    Called("mutation_spectrum") =>
        /\ spectrum.Transitions =
               Cardinality({ i \in SnpIndices : IsTransition(df[i].REF, FirstAlt(df[i].ALT)) })
        /\ spectrum.Transversions =
               Cardinality({ i \in SnpIndices : IsTransversion(df[i].REF, FirstAlt(df[i].ALT)) })
        /\ spectrum.Transitions + spectrum.Transversions <= Cardinality(SnpIndices)
        /\ (SnpIndices = DOMAIN df /\ [i \in DOMAIN df |-> df[i].Mutation] = ExampleLabels) =>
               spectrum = [Transitions |-> 3, Transversions |-> 1, Ratio |-> SomeInt(300)]

C9_Witness ==
    /\ Called("mutation_spectrum")
    /\ SnpIndices = DOMAIN df
    /\ [i \in DOMAIN df |-> df[i].Mutation] = ExampleLabels
    /\ spectrum.Transitions = 3
    /\ spectrum.Transversions = 1

RECURSIVE DepthSum(_)
\* the sum of the defined depths of the rows with index in S
DepthSum(S) ==
    IF S = {} THEN 0
    ELSE LET i == CHOOSE x \in S : TRUE IN df[i].DP.v + DepthSum(S \ {i})

WithDepth == { i \in DOMAIN df : df[i].DP.def }
ExampleDepths == <<SomeInt(10), SomeInt(20), NoneInt, SomeInt(30)>>

\* C10: for a non-empty table ngs_quality_metrics reports as Q30 Variants the
\* number of records with a defined quality score >= 30 and as Mean Depth the
\* mean over the records with a defined depth (depths 10, 20, NA, 30 give
\* 20.0); for an empty table it returns an empty mapping.
C10_QualityMetrics ==
    Called("ngs_quality_metrics") =>
        IF Len(df) = 0 THEN metrics.keys = {}
        ELSE /\ metrics.keys = {"Mean Depth", "Median VAF", "Q30 Variants"}
             /\ metrics.Q30 =
                    Cardinality({ i \in DOMAIN df : df[i].QUAL.def /\ df[i].QUAL.v >= 30 })
             /\ WithDepth /= {} =>
                    /\ metrics.MeanDepth.def
                    /\ metrics.MeanDepth.v.n * Cardinality(WithDepth)
                           = DepthSum(WithDepth) * metrics.MeanDepth.v.d
             /\ [i \in DOMAIN df |-> df[i].DP] = ExampleDepths =>
                    metrics.MeanDepth.v.n = 20 * metrics.MeanDepth.v.d

C10_Witness ==
    /\ Called("ngs_quality_metrics")
    /\ [i \in DOMAIN df |-> df[i].DP] = ExampleDepths
    /\ metrics.MeanDepth.v.n = 20 * metrics.MeanDepth.v.d
    /\ metrics.Q30 = 2

=============================================================================
